---- MODULE Spec2Model ----
(***************************************************************************)
(* State-machine model of the pre-processing script                        *)
(*   [01]pre_processing&exploratory_data_analysis.py                       *)
(* The script is one straight-line batch run over a data frame: parse the  *)
(* timestamps, build the 10-minute grid, reindex onto it, interpolate,     *)
(* add solar/calendar columns, resample to hourly rows, then plot.         *)
(* Every statement that changes df, full_index or df_hourly is one action. *)
(* Timestamps are minutes since 1970-01-01 00:00; NaT is the absent        *)
(* timestamp.  A numeric cell is a rational <<num, den>> in lowest terms   *)
(* with den > 0, or NaN (den = 0).                                         *)
(***************************************************************************)
EXTENDS Integers, Sequences, FiniteSets

VARIABLES raw, df, full_index, df_hourly, pc, err

vars == <<raw, df, full_index, df_hourly, pc, err>>

----------------------------------------------------------------------------
(* Bounds of the explored inputs *)

\* largest number of rows in the spreadsheet
MaxRows == 3

\* 2022-12-31 16:40, so that Time + 7 h crosses midnight and the year end
T0 == (19357 * 1440) + (16 * 60) + 40

\* offsets (minutes) of the raw timestamps from T0; 15 is off the grid from 0
RawOffsets == {0, 15, 30, 80}

----------------------------------------------------------------------------
(* Configuration *)

\* EXPECTED_FREQ = "10min"
EXPECTED_FREQ == 10

\* RESAMPLE_FREQ = "H"
RESAMPLE_FREQ == 60

\* pd.Timedelta(hours=7), in minutes
WIB_SHIFT == 7 * 60

\* the measured columns carried through the pipeline (two of SELECTED_COLUMNS)
MeasuredFields == {"rr", "sr_avg"}

----------------------------------------------------------------------------
(* Cells *)

\* pandas NaT
NaT == -1

\* a missing numeric cell
NaN == <<0, 0>>

isna(v) == v[2] = 0

Abs(x) == IF x < 0 THEN -x ELSE x

RECURSIVE GCD(_, _)
GCD(a, b) == IF b = 0 THEN a ELSE GCD(b, a % b)

Norm(v) ==
    LET g == GCD(Abs(v[1]), v[2])
    IN  <<v[1] \div g, v[2] \div g>>

Num(n) == <<n, 1>>

RatAdd(p, q) == Norm(<<p[1] * q[2] + q[1] * p[2], p[2] * q[2]>>)
RatSub(p, q) == Norm(<<p[1] * q[2] - q[1] * p[2], p[2] * q[2]>>)
RatMul(p, q) == Norm(<<p[1] * q[1], p[2] * q[2]>>)

SetMin(S) == CHOOSE m \in S : \A x \in S : m <= x
SetMax(S) == CHOOSE m \in S : \A x \in S : x <= m

----------------------------------------------------------------------------
(* Data loading: pd.read_excel and pd.to_datetime(..., errors="coerce") *)

\* a Time cell of the sheet: text in the expected format, or anything else
RawTimeCells ==
    {[fmt |-> "dmy_hms", t |-> T0 + o] : o \in RawOffsets}
        \cup {[fmt |-> "other", t |-> T0]}

\* the measured values of one sheet row
RawValueCells ==
    { [rr |-> NaN,     sr_avg |-> NaN],
      [rr |-> Num(10), sr_avg |-> Num(5)],
      [rr |-> Num(20), sr_avg |-> NaN],
      [rr |-> NaN,     sr_avg |-> Num(5)] }

RawRows ==
    {[Time |-> c, rr |-> v.rr, sr_avg |-> v.sr_avg] :
        c \in RawTimeCells, v \in RawValueCells}

RawSheets == UNION {[1..n -> RawRows] : n \in 0..MaxRows}

\* format="%d/%m/%Y %H:%M:%S", errors="coerce": a cell that does not match
\* the format becomes NaT
to_datetime(cell) == IF cell.fmt = "dmy_hms" THEN cell.t ELSE NaT

ParseFrame(sheet) ==
    [i \in DOMAIN sheet |->
        [Time   |-> to_datetime(sheet[i].Time),
         rr     |-> sheet[i].rr,
         sr_avg |-> sheet[i].sr_avg]]

----------------------------------------------------------------------------
(* Handle missing timestamps: date_range and reindex *)

Labels(d) == {d[i].Time : i \in DOMAIN d}

\* Series.min() / Series.max() skip NaT; NaT when nothing is left
SeriesMin(d) ==
    IF Labels(d) \ {NaT} = {} THEN NaT ELSE SetMin(Labels(d) \ {NaT})
SeriesMax(d) ==
    IF Labels(d) \ {NaT} = {} THEN NaT ELSE SetMax(Labels(d) \ {NaT})

\* date_range that lets the last point pass end
date_range_overrun(start, end, freq) ==
    IF start = NaT \/ end = NaT
    THEN [err |-> "ValueError", val |-> <<>>]
    ELSE [err |-> "none",
          val |-> [i \in 1..(((end - start) \div freq) + 2) |->
                      start + (i - 1) * freq]]

\* date_range that answers an empty range for NaT ends instead of raising
date_range_empty_on_nat(start, end, freq) ==
    IF start = NaT \/ end = NaT
    THEN [err |-> "none", val |-> <<>>]
    ELSE [err |-> "none",
          val |-> [i \in 1..(((end - start) \div freq) + 1) |->
                      start + (i - 1) * freq]]

\* pd.date_range(start, end, freq): start, start+freq, ... up to end;
\* raises ValueError when start or end is NaT
date_range(start, end, freq) ==
    IF start = NaT \/ end = NaT
    THEN [err |-> "ValueError", val |-> <<>>]
    ELSE [err |-> "none",
          val |-> [i \in 1..(((end - start) \div freq) + 1) |->
                      start + (i - 1) * freq]]

is_unique(d) == \A i, j \in DOMAIN d : d[i].Time = d[j].Time => i = j

\* reindex with method='ffill': a label without a row takes the row of the
\* latest earlier label
reindex_ffill(d, target) ==
    IF ~is_unique(d)
    THEN [err |-> "ValueError", val |-> <<>>]
    ELSE [err |-> "none",
          val |-> [k \in DOMAIN target |->
                    LET prev == {i \in DOMAIN d :
                                    d[i].Time # NaT /\ d[i].Time <= target[k]}
                    IN  IF prev # {}
                        THEN LET i == CHOOSE i \in prev :
                                        \A j \in prev : d[j].Time <= d[i].Time
                             IN  [Time |-> target[k], rr |-> d[i].rr,
                                  sr_avg |-> d[i].sr_avg]
                        ELSE [Time |-> target[k], rr |-> NaN,
                              sr_avg |-> NaN]]]

\* df.set_index('Time').reindex(target).rename_axis('Time').reset_index():
\* raises ValueError on duplicate labels (NaT included); otherwise one row
\* per target label, the row with that label or an all-NaN row
reindex(d, target) ==
    IF ~is_unique(d)
    THEN [err |-> "ValueError", val |-> <<>>]
    ELSE [err |-> "none",
          val |-> [k \in DOMAIN target |->
                    IF \E i \in DOMAIN d : d[i].Time = target[k]
                    THEN LET i == CHOOSE i \in DOMAIN d : d[i].Time = target[k]
                         IN  [Time |-> target[k], rr |-> d[i].rr,
                              sr_avg |-> d[i].sr_avg]
                    ELSE [Time |-> target[k], rr |-> NaN, sr_avg |-> NaN]]]

----------------------------------------------------------------------------
(* Interpolate missing values: df.interpolate(method='linear',             *)
(* limit_direction='both')                                                 *)

Column(d, f) == [i \in DOMAIN d |-> d[i][f]]

\* interpolation whose fraction is position / run length
np_interp_runlen(x, xp, fp) ==
    IF x < SetMin(xp) THEN fp[SetMin(xp)]
    ELSE IF x > SetMax(xp) THEN fp[SetMax(xp)]
    ELSE LET lo == SetMax({v \in xp : v < x})
             hi == SetMin({v \in xp : v > x})
         IN  RatAdd(fp[lo],
                    RatMul(RatSub(fp[hi], fp[lo]),
                           Norm(<<x - lo, hi - lo - 1>>)))

\* numpy.interp(x, xp, fp) on row positions: the end values outside the
\* known positions, the straight line between the two neighbours inside
np_interp(x, xp, fp) ==
    IF x < SetMin(xp) THEN fp[SetMin(xp)]
    ELSE IF x > SetMax(xp) THEN fp[SetMax(xp)]
    ELSE LET lo == SetMax({v \in xp : v < x})
             hi == SetMin({v \in xp : v > x})
         IN  RatAdd(fp[lo],
                    RatMul(RatSub(fp[hi], fp[lo]), Norm(<<x - lo, hi - lo>>)))

\* one column: positions are the row numbers whatever the index, known cells stay,
\* a column without any known cell is returned as it is
interpolate_1d(y) ==
    LET valid == {i \in DOMAIN y : ~isna(y[i])}
    IN  IF valid = {}
        THEN y
        ELSE [i \in DOMAIN y |->
                IF i \in valid THEN y[i] ELSE np_interp(i, valid, y)]

\* every float column of the frame, each on its own; Time is left alone
interpolate(d) ==
    [i \in DOMAIN d |->
        [Time   |-> d[i].Time,
         rr     |-> interpolate_1d(Column(d, "rr"))[i],
         sr_avg |-> interpolate_1d(Column(d, "sr_avg"))[i]]]

----------------------------------------------------------------------------
(* Solar geometry and temporal features *)

\* civil date <<year, month, day>> of a day number (days since 1970-01-01)
CivilFromDays(z) ==
    LET zz  == z + 719468
        era == zz \div 146097
        doe == zz - era * 146097
        yoe == (doe - (doe \div 1460) + (doe \div 36524) - (doe \div 146096))
                  \div 365
        doy == doe - (365 * yoe + (yoe \div 4) - (yoe \div 100))
        mp  == (5 * doy + 2) \div 153
        d   == doy - ((153 * mp + 2) \div 5) + 1
        m   == IF mp < 10 THEN mp + 3 ELSE mp - 9
        y   == yoe + era * 400 + (IF m <= 2 THEN 1 ELSE 0)
    IN  <<y, m, d>>

\* day number of a civil date
DaysFromCivil(y, m, d) ==
    LET yy  == IF m <= 2 THEN y - 1 ELSE y
        era == yy \div 400
        yoe == yy - era * 400
        doy == ((153 * (IF m > 2 THEN m - 3 ELSE m + 9) + 2) \div 5) + d - 1
        doe == yoe * 365 + (yoe \div 4) - (yoe \div 100) + doy
    IN  era * 146097 + doe - 719468

\* the .dt accessors of a timestamp
dt_date(t)      == t \div 1440
dt_year(t)      == CivilFromDays(dt_date(t))[1]
dt_month(t)     == CivilFromDays(dt_date(t))[2]
dt_day(t)       == CivilFromDays(dt_date(t))[3]
dt_hour(t)      == (t \div 60) % 24
dt_dayofyear(t) == dt_date(t) - DaysFromCivil(dt_year(t), 1, 1) + 1

\* pvlib.solarposition.get_solarposition at the site: a stand-in that, like
\* the library, is a function of the localized instant only (degrees)
solar_elevation(wib) == 90 - (Abs((wib % 1440) - 720) \div 4)
solar_azimuth(wib)   == (wib % 1440) \div 4
solar_zenith(wib)    == 90 - solar_elevation(wib)

\* lines 52-65.  sp is indexed by the library, df by 0..n-1: when the two
\* indexes agree (aligned) the column takes sp's values, otherwise column
\* assignment finds no common label and the column is all NaN
enrich(d, aligned) ==
    [i \in DOMAIN d |->
        LET wib == d[i].Time + WIB_SHIFT
        IN  [Time   |-> d[i].Time,
             rr     |-> d[i].rr,
             sr_avg |-> d[i].sr_avg,
             WIB    |-> wib,
             Sun_Altitude |->
                 IF aligned THEN Num(solar_elevation(wib)) ELSE NaN,
             Sun_Azimuth |->
                 IF aligned THEN Num(solar_azimuth(wib)) ELSE NaN,
             Sun_Zenith_Angle |->
                 IF aligned THEN Num(solar_zenith(wib)) ELSE NaN,
             Hour   |-> Num(dt_hour(wib)),
             DOY    |-> Num(dt_dayofyear(wib)),
             Month  |-> Num(dt_month(wib)),
             Year   |-> Num(dt_year(wib)),
             Day    |-> Num(dt_day(wib))]]

\* the numeric columns of the enriched frame
NumericFields ==
    MeasuredFields \cup
        {"Sun_Altitude", "Sun_Azimuth", "Sun_Zenith_Angle",
         "Hour", "DOY", "Month", "Year", "Day"}

----------------------------------------------------------------------------
(* Resample to hourly *)

floor_to(t, freq) == t - (t % freq)

\* bins laid out one past the bin of the last row
resample_bins_extra(d, freq) ==
    IF d = <<>>
    THEN <<>>
    ELSE LET lo == SetMin({d[i].WIB - (d[i].WIB % freq) : i \in DOMAIN d})
             hi == SetMax({d[i].WIB - (d[i].WIB % freq) : i \in DOMAIN d})
         IN  [k \in 1..(((hi - lo) \div freq) + 2) |-> lo + (k - 1) * freq]

\* the bin starts resample() lays out: every freq from the bin of the first
\* row to the bin of the last row, whether rows fall in them or not
resample_bins(d, freq) ==
    IF d = <<>>
    THEN <<>>
    ELSE LET lo == floor_to(SetMin({d[i].WIB : i \in DOMAIN d}), freq)
             hi == floor_to(SetMax({d[i].WIB : i \in DOMAIN d}), freq)
         IN  [k \in 1..(((hi - lo) \div freq) + 1) |-> lo + (k - 1) * freq]

\* positions of the rows of bin b, in frame order
BinRows(d, b, freq) == {i \in DOMAIN d : floor_to(d[i].WIB, freq) = b}

\* GroupBy.last(): the last non-null cell of the bin
last_valid(d, rows, f) ==
    IF \E i \in rows : ~isna(d[i][f])
    THEN d[SetMax({i \in rows : ~isna(d[i][f])})][f]
    ELSE NaN

\* GroupBy.first() on one numeric column: the first non-null cell of the
\* bin, NaN when the bin has none
first_valid(d, rows, f) ==
    IF \E i \in rows : ~isna(d[i][f])
    THEN d[SetMin({i \in rows : ~isna(d[i][f])})][f]
    ELSE NaN

\* the same on the Time column (NaT is the null)
first_time(d, rows) ==
    IF \E i \in rows : d[i].Time # NaT
    THEN d[SetMin({i \in rows : d[i].Time # NaT})].Time
    ELSE NaT

\* line 68-69: one row per bin, each column reduced by first(); Date is the
\* calendar date (day number) of the bin start
resample_first(d, freq) ==
    LET bins == resample_bins(d, freq)
    IN  [k \in DOMAIN bins |->
            LET rows == BinRows(d, bins[k], freq)
            IN  [WIB    |-> bins[k],
                 Time   |-> first_time(d, rows),
                 rr     |-> first_valid(d, rows, "rr"),
                 sr_avg |-> first_valid(d, rows, "sr_avg"),
                 Sun_Altitude     |-> first_valid(d, rows, "Sun_Altitude"),
                 Sun_Azimuth      |-> first_valid(d, rows, "Sun_Azimuth"),
                 Sun_Zenith_Angle |-> first_valid(d, rows, "Sun_Zenith_Angle"),
                 Hour   |-> first_valid(d, rows, "Hour"),
                 DOY    |-> first_valid(d, rows, "DOY"),
                 Month  |-> first_valid(d, rows, "Month"),
                 Year   |-> first_valid(d, rows, "Year"),
                 Day    |-> first_valid(d, rows, "Day"),
                 Date   |-> dt_date(bins[k])]]

----------------------------------------------------------------------------
(* Visualization 2 rewrites three columns of df_hourly *)

\* pd.to_datetime(df_hourly['Date']).dt.year / .dt.month / .dt.day
date_year(date)  == Num(CivilFromDays(date)[1])
date_month(date) == Num(CivilFromDays(date)[2])
date_day(date)   == Num(CivilFromDays(date)[3])

\* the three columns taken from the date of Time instead of Date
assign_ymd_from_time(h) ==
    [k \in DOMAIN h |->
        [h[k] EXCEPT !.Year  = Num(CivilFromDays(h[k].Time \div 1440)[1]),
                     !.Month = Num(CivilFromDays(h[k].Time \div 1440)[2]),
                     !.Day   = Num(CivilFromDays(h[k].Time \div 1440)[3])]]

\* lines 85-87
assign_ymd(h) ==
    [k \in DOMAIN h |->
        [h[k] EXCEPT !.Year  = date_year(h[k].Date),
                     !.Month = date_month(h[k].Date),
                     !.Day   = date_day(h[k].Date)]]

----------------------------------------------------------------------------
(* The run *)

NoError == [type |-> "none", stage |-> "none"]

Init ==
    /\ raw \in RawSheets
    /\ df = <<>>
    /\ full_index = <<>>
    /\ df_hourly = <<>>
    /\ pc = "load"
    /\ err = NoError

\* lines 40-42
Load ==
    /\ pc = "load"
    /\ df' = ParseFrame(raw)
    /\ pc' = "grid"
    /\ UNCHANGED <<raw, full_index, df_hourly, err>>

\* line 45
BuildGrid ==
    /\ pc = "grid"
    /\ LET r == date_range(SeriesMin(df), SeriesMax(df), EXPECTED_FREQ)
       IN  IF r.err = "none"
           THEN /\ full_index' = r.val
                /\ pc' = "reindex"
                /\ UNCHANGED err
           ELSE /\ err' = [type |-> r.err, stage |-> "grid"]
                /\ pc' = "failed"
                /\ UNCHANGED full_index
    /\ UNCHANGED <<raw, df, df_hourly>>

\* line 46
Reindex ==
    /\ pc = "reindex"
    /\ LET r == reindex(df, full_index)
       IN  IF r.err = "none"
           THEN /\ df' = r.val
                /\ pc' = "interpolate"
                /\ UNCHANGED err
           ELSE /\ err' = [type |-> r.err, stage |-> "reindex"]
                /\ pc' = "failed"
                /\ UNCHANGED df
    /\ UNCHANGED <<raw, full_index, df_hourly>>

\* line 49
Interpolate ==
    /\ pc = "interpolate"
    /\ df' = interpolate(df)
    /\ pc' = "enrich"
    /\ UNCHANGED <<raw, full_index, df_hourly, err>>

\* lines 52-65
Enrich ==
    /\ pc = "enrich"
    /\ \E aligned \in BOOLEAN : df' = enrich(df, aligned)
    /\ pc' = "resample"
    /\ UNCHANGED <<raw, full_index, df_hourly, err>>

\* lines 68-69
Resample ==
    /\ pc = "resample"
    /\ df_hourly' = resample_first(df, RESAMPLE_FREQ)
    /\ pc' = "viz1"
    /\ UNCHANGED <<raw, df, full_index, err>>

\* lines 72-79: reads df_hourly
Visualization1 ==
    /\ pc = "viz1"
    /\ pc' = "viz2"
    /\ UNCHANGED <<raw, df, full_index, df_hourly, err>>

\* lines 82-117: rewrites Year, Month, Day from Date, then reads df_hourly
Visualization2 ==
    /\ pc = "viz2"
    /\ df_hourly' = assign_ymd(df_hourly)
    /\ pc' = "viz3"
    /\ UNCHANGED <<raw, df, full_index, err>>

\* lines 120-214: visualizations 3 to 6 read df_hourly
Visualization3to6 ==
    /\ pc = "viz3"
    /\ pc' = "done"
    /\ UNCHANGED <<raw, df, full_index, df_hourly, err>>

Next ==
    \/ Load
    \/ BuildGrid
    \/ Reindex
    \/ Interpolate
    \/ Enrich
    \/ Resample
    \/ Visualization1
    \/ Visualization2
    \/ Visualization3to6

Spec == Init /\ [][Next]_vars

----------------------------------------------------------------------------
(* Properties *)

\* rows of the sheet whose timestamp parses, and their timestamps
RawValid == {i \in DOMAIN raw : raw[i].Time.fmt = "dmy_hms"}
RawBad   == DOMAIN raw \ RawValid
RawTimes == {raw[i].Time.t : i \in RawValid}
RawDistinct ==
    \A i, j \in RawValid : raw[i].Time.t = raw[j].Time.t => i = j

GridDone      == pc \notin {"load", "grid"}
ReindexDone   == pc \notin {"load", "grid", "reindex", "failed"}
ResampleDone  == pc \in {"viz1", "viz2", "viz3", "done"}
Last(s)       == s[Len(s)]

\* C1: with at least one valid raw timestamp the grid is built, starts at the
\* smallest valid raw timestamp, steps by exactly the 10-minute interval
\* (so it is strictly increasing without duplicates) and ends at or below
\* the largest valid raw timestamp, less than one interval below it.
C1_GridRegular ==
    (GridDone /\ RawValid # {}) =>
        /\ ~(pc = "failed" /\ err.stage = "grid")
        /\ Len(full_index) >= 1
        /\ full_index[1] = SetMin(RawTimes)
        /\ \A k \in 1..(Len(full_index) - 1) :
              full_index[k + 1] - full_index[k] = 10
        /\ Last(full_index) <= SetMax(RawTimes)
        /\ SetMax(RawTimes) - Last(full_index) < 10

\* a grid of several points whose end lies strictly below the raw maximum
C1_Witness ==
    /\ pc = "reindex"
    /\ Len(full_index) >= 3
    /\ Last(full_index) < SetMax(RawTimes)

\* C2: once reindexing has produced the frame it has one row per grid
\* timestamp, in grid order; right after reindexing the row of a grid
\* timestamp holds the values of the raw row with exactly that timestamp, and
\* NaN in every field when no raw row has it.
C2_ReindexLeftJoin ==
    ReindexDone =>
        /\ Len(df) = Len(full_index)
        /\ \A k \in DOMAIN df : df[k].Time = full_index[k]
        /\ pc = "interpolate" =>
              \A k \in DOMAIN df : \A f \in MeasuredFields :
                  /\ \A i \in RawValid :
                        raw[i].Time.t = full_index[k] => df[k][f] = raw[i][f]
                  /\ full_index[k] \notin RawTimes => df[k][f] = NaN

\* a raw row with values lies off the grid, one grid row is matched and
\* known, another grid row has no raw row
C2_Witness ==
    /\ pc = "interpolate"
    /\ \E i \in RawValid :
          /\ ~isna(raw[i].rr)
          /\ \A k \in DOMAIN full_index : full_index[k] # raw[i].Time.t
    /\ \E k \in DOMAIN df : ~isna(df[k].rr)
    /\ \E k \in DOMAIN df : full_index[k] \notin RawTimes

\* C3: when raw rows share a valid timestamp, reindexing completes and the
\* grid row of that timestamp holds the values of the first such raw row.
C3_KeepsFirstDuplicate ==
    (~RawDistinct /\ pc \notin {"load", "grid", "reindex"}) =>
        /\ pc # "failed"
        /\ pc = "interpolate" =>
              \A k \in DOMAIN df : \A f \in MeasuredFields :
                  full_index[k] \in RawTimes =>
                      df[k][f] =
                          raw[SetMin({i \in RawValid :
                                  raw[i].Time.t = full_index[k]})][f]

\* C4: with at least one valid timestamp (and no two valid rows sharing one),
\* any number of unparsable timestamps leaves the run alive, and the
\* unparsable rows contribute nothing to the grid or to the reindexed rows.
C4_UnparsableRowsAbsorbed ==
    (RawValid # {} /\ RawBad # {} /\ RawDistinct) =>
        /\ pc # "failed"
        /\ GridDone => full_index[1] = SetMin(RawTimes)
        /\ pc = "interpolate" =>
              \A k \in DOMAIN df : \A f \in MeasuredFields :
                  full_index[k] \notin RawTimes => df[k][f] = NaN

InterpolateDone == pc \in {"enrich", "resample", "viz1", "viz2", "viz3", "done"}

\* C6: past interpolation no measured field has an absent value at any grid
\* timestamp: a field with a known value has been filled, and a field absent
\* at every grid timestamp has stopped the run with InsufficientDataError
\* instead of being passed on to enrichment and aggregation.
C6_NoAbsentPassedOn ==
    InterpolateDone =>
        \A i \in DOMAIN df : \A f \in MeasuredFields : ~isna(df[i][f])

\* what line 49 does: it never raises, fills every field that has a known
\* value and leaves a field without one absent at every grid timestamp
InterpolateFillsOrKeeps ==
    [][pc = "interpolate" =>
          /\ pc' = "enrich"
          /\ err' = NoError
          /\ \A f \in MeasuredFields :
                IF \E i \in DOMAIN df : ~isna(df[i][f])
                THEN \A i \in DOMAIN df' : ~isna(df'[i][f])
                ELSE \A i \in DOMAIN df' : isna(df'[i][f])]_vars

\* the reference fill of slot i of column y: the run of absent slots around
\* i is s..e, with n slots, of which i is the k-th
RunStart(y, i) ==
    SetMin({s \in 1..i : \A j \in s..i : isna(y[j])})
RunEnd(y, i) ==
    SetMax({e \in i..Len(y) : \A j \in i..e : isna(y[j])})
ReferenceFill(y, i) ==
    IF ~isna(y[i]) THEN y[i]
    ELSE LET s == RunStart(y, i)
             e == RunEnd(y, i)
             n == e - s + 1
             k == i - s + 1
         IN  IF s > 1 /\ e < Len(y)
             THEN LET a == y[s - 1][1]
                      b == y[e + 1][1]
                  IN  Norm(<<a * (n + 1) + (b - a) * k, n + 1>>)
             ELSE IF e < Len(y) THEN y[e + 1]
             ELSE IF s > 1 THEN y[s - 1]
             ELSE NaN

\* C7: for each field on its own, interpolation gives the reference fill:
\* known values stay, the k-th of n absent slots between a and b gets
\* a + (b - a) * k / (n + 1), and a leading or trailing absent run gets the
\* nearest known value.
C7_InterpolateIsReferenceFill ==
    [][pc = "interpolate" =>
          /\ Len(df') = Len(df)
          /\ \A f \in MeasuredFields : \A i \in DOMAIN df :
                df'[i][f] = ReferenceFill(Column(df, f), i)]_vars

\* 10, _, _, 20 became 10, 40/3, 50/3, 20 and 5, _, _, _ became 5, 5, 5, 5
C7_Witness ==
    /\ pc = "enrich"
    /\ Column(df, "rr") = <<Num(10), <<40, 3>>, <<50, 3>>, Num(20)>>
    /\ Column(df, "sr_avg") = <<Num(5), Num(5), Num(5), Num(5)>>
    /\ \E i \in RawValid : isna(raw[i].sr_avg)

\* C8: every numeric field of every hourly row is the value of that field in
\* the chronologically first fine row whose WIB falls in the row's hour.
C8_FirstInBin ==
    ResampleDone =>
        \A k \in DOMAIN df_hourly :
            LET b    == df_hourly[k].WIB
                rows == {i \in DOMAIN df : b <= df[i].WIB /\ df[i].WIB < b + 60}
            IN  /\ rows # {}
                /\ \A f \in NumericFields :
                      \A i \in rows :
                          (\A j \in rows : df[i].WIB <= df[j].WIB) =>
                              df_hourly[k][f] = df[i][f]

\* an hour holding six fine rows whose values differ from the first row's
C8_Witness ==
    /\ pc = "viz1"
    /\ \E k \in DOMAIN df_hourly :
          LET b    == df_hourly[k].WIB
              rows == {i \in DOMAIN df : b <= df[i].WIB /\ df[i].WIB < b + 60}
          IN  /\ Cardinality(rows) = 6
              /\ \E i \in rows : df[i].rr # df_hourly[k].rr
              /\ \E i \in rows : df[i].Sun_Altitude # df_hourly[k].Sun_Altitude
              /\ ~isna(df_hourly[k].Sun_Altitude)

\* C9: the hourly frame has exactly one row for every hour holding a fine
\* row, in strictly increasing order of bin start, and no row for an hour
\* without fine rows.
C9_OneRowPerNonEmptyBin ==
    ResampleDone =>
        /\ \A k \in 1..(Len(df_hourly) - 1) :
              df_hourly[k].WIB < df_hourly[k + 1].WIB
        /\ \A k \in DOMAIN df_hourly :
              /\ df_hourly[k].WIB % 60 = 0
              /\ \E i \in DOMAIN df :
                    df_hourly[k].WIB <= df[i].WIB
                        /\ df[i].WIB < df_hourly[k].WIB + 60
        /\ \A i \in DOMAIN df :
              \E k \in DOMAIN df_hourly :
                  df_hourly[k].WIB <= df[i].WIB
                      /\ df[i].WIB < df_hourly[k].WIB + 60

\* three hourly rows from a grid that spans three hours
C9_Witness ==
    /\ pc = "viz1"
    /\ Len(df_hourly) = 3
    /\ Len(df) = 9

\* C10: no visualization step changes any value of the hourly frame; Year,
\* Month and Day after the plots are the values resampling took from the
\* first row of the bin.
C10_HourlyFrameUnchanged ==
    [][(pc \in {"viz1", "viz2", "viz3"}) => (df_hourly' = df_hourly)]_vars

\* the plots are over and the hourly rows lie on both sides of the year end
C10_Witness ==
    /\ pc = "done"
    /\ \E k, l \in DOMAIN df_hourly :
          /\ df_hourly[k].Year = Num(2022) /\ df_hourly[k].Day = Num(31)
          /\ df_hourly[l].Year = Num(2023) /\ df_hourly[l].Day = Num(1)
          /\ dt_year(df_hourly[l].Time) = 2022

====
